---- MODULE Spec2Model ----
(***************************************************************************)
(* TDOA / DOA estimation (tdoa.py, doa.py).                                *)
(*                                                                         *)
(* The estimators are functions of their arguments.  The state is the      *)
(* frame of the most recent call: which function was called, with which    *)
(* arguments, and what it returned or raised.  Signals are finite          *)
(* sequences of integer samples, a sample rate is a positive integer and   *)
(* every real number (seconds, metres, ratios) is an exact fraction        *)
(* [num, den] in lowest terms with den > 0.                                *)
(***************************************************************************)
EXTENDS Integers, Sequences, FiniteSets

VARIABLES op, sig1, sig2, fs, method, ifft_real, tdoa, d, c, np_operand, ret,
          files, mic_distance, pc, idx, rirs, rir_rates, fs_rir, pair, calls

\* the frame of the call in progress
frameVars == <<op, sig1, sig2, fs, method, ifft_real, tdoa, d, c, np_operand, ret>>

\* main.py: process_configuration and load_rirs
mainVars == <<files, mic_distance, pc, idx, rirs, rir_rates, fs_rir, pair, calls>>

vars == <<frameVars, mainVars>>

(***************************************************************************)
(* Bounds of the model.                                                    *)
(***************************************************************************)
MaxLen == 4        \* longest signal handed to estimate_tdoa_cc
MaxGccLen == 4     \* longest signal handed to estimate_tdoa_gcc
MaxTdoaNum == 2    \* numerators of the TDOA handed to estimate_doa_from_tdoa

Samples == {0 - 1, 0, 1}

GccSamples == {0, 1}

\* the non-empty 1-D arrays of at most len samples (flatten() leaves a 1-D
\* array as it is)
SignalsOver(alphabet, len) == UNION {[1..m -> alphabet] : m \in 1..len}

Signals == SignalsOver(Samples, MaxLen)

GccSignals == SignalsOver(GccSamples, MaxGccLen)

\* fs, a positive number of samples per second
SampleRates == {1, 2}

(***************************************************************************)
(* Exact fractions.                                                        *)
(***************************************************************************)
Abs(x) == IF x < 0 THEN 0 - x ELSE x

RECURSIVE Gcd(_, _)
Gcd(a, b) == IF b = 0 THEN a ELSE Gcd(b, a % b)

\* p / q for q # 0, in lowest terms with a positive denominator
Frac(p, q) ==
    LET g == Gcd(Abs(p), Abs(q))
        s == IF q < 0 THEN 0 - 1 ELSE 1
    IN  [num |-> (s * p) \div g, den |-> (s * q) \div g]

FracLess(a, b) == a.num * b.den < b.num * a.den

Zeros(k) == [i \in 1..k |-> 0]

NonZero(s) == \E i \in 1..Len(s) : s[i] # 0

RECURSIVE SumTo(_, _)
SumTo(f, n) == IF n = 0 THEN 0 ELSE f[n] + SumTo(f, n - 1)

(***************************************************************************)
(* Values a call ends with.                                                *)
(***************************************************************************)
Num(q) == [kind |-> "num", val |-> q]

Raised(type, args) == [kind |-> "error", type |-> type, args |-> args]

NoCall == [kind |-> "none"]

(***************************************************************************)
(* tdoa.py: estimate_tdoa_cc                                               *)
(***************************************************************************)
\* the arguments taken in the other order: correlate(b, a)
CorrelateSwapped(a, b) ==
    [i \in 1..(Len(a) + Len(b) - 1) |->
        LET lag == i - Len(a)
            term == [l \in 1..Len(b) |->
                        IF l - lag >= 1 /\ l - lag <= Len(a)
                        THEN b[l] * a[l - lag] ELSE 0]
        IN  SumTo(term, Len(b))]

\* scipy.signal.correlate(a, b, mode='full'): entry i (1-based) is the sum of
\* a[l] * b[l - lag] over the overlap, for lag = i - Len(b)
Correlate(a, b) ==
    [i \in 1..(Len(a) + Len(b) - 1) |->
        LET lag == i - Len(b)
            term == [l \in 1..Len(a) |->
                        IF l - lag >= 1 /\ l - lag <= Len(b)
                        THEN a[l] * b[l - lag] ELSE 0]
        IN  SumTo(term, Len(a))]

\* the lag axis with its sign reversed
CorrelationLagsReversed(len1, len2) == [i \in 1..(len1 + len2 - 1) |-> len2 - i]

\* the lag axis starting one sample early: arange(-len2, len1 - 1)
CorrelationLagsFromMinusLen(len1, len2) == [i \in 1..(len1 + len2 - 1) |-> i - len2 - 1]

\* scipy.signal.correlation_lags(len1, len2, mode='full') = arange(-len2 + 1, len1)
CorrelationLags(len1, len2) == [i \in 1..(len1 + len2 - 1) |-> i - len2]

\* the last index holding the maximum
ArgMaxLast(v) ==
    CHOOSE i \in 1..Len(v) :
        /\ \A j \in 1..Len(v) : v[j] <= v[i]
        /\ \A j \in (i + 1)..Len(v) : v[j] < v[i]

\* np.argmax: the first index holding the maximum (1-based here)
ArgMax(v) ==
    CHOOSE i \in 1..Len(v) :
        /\ \A j \in 1..Len(v) : v[j] <= v[i]
        /\ \A j \in 1..(i - 1) : v[j] < v[i]

estimate_tdoa_cc(s1, s2, rate) ==
    LET corr == Correlate(s1, s2)
        lags_samples == CorrelationLags(Len(s1), Len(s2))
        lags_seconds == [i \in 1..Len(lags_samples) |-> Frac(lags_samples[i], rate)]
    IN  Num(lags_seconds[ArgMax(corr)])

(***************************************************************************)
(* tdoa.py: estimate_tdoa_gcc                                              *)
(***************************************************************************)
\* A method selector is a string, modelled as the sequence of its characters.
Phat == <<"p", "h", "a", "t">>

Scot == <<"s", "c", "o", "t">>

Methods ==
    { Phat, Scot,
      <<"P", "H", "A", "T">>, <<"S", "c", "o", "t">>,
      <<"i", "n", "v", "a", "l", "i", "d">>,
      <<"I", "N", "V", "A", "L", "I", "D">>,
      <<"g", "c", "c">>, <<>> }

UpperCase == <<"A", "B", "C", "D", "E", "F", "G", "H", "I", "J", "K", "L", "M",
               "N", "O", "P", "Q", "R", "S", "T", "U", "V", "W", "X", "Y", "Z">>

LowerCase == <<"a", "b", "c", "d", "e", "f", "g", "h", "i", "j", "k", "l", "m",
               "n", "o", "p", "q", "r", "s", "t", "u", "v", "w", "x", "y", "z">>

LowerChar(ch) ==
    IF \E i \in 1..Len(UpperCase) : UpperCase[i] = ch
    THEN LowerCase[CHOOSE i \in 1..Len(UpperCase) : UpperCase[i] = ch]
    ELSE ch

\* str.lower()
Lower(m) == [i \in 1..Len(m) |-> LowerChar(m[i])]

\* the message of the ValueError of line 50
GccErrorMessage == "Método GCC no reconocido. Use 'phat' o 'scot'."

\* an error that also carries the method passed
GccErrorNamingMethod(m) == Raised("ValueError", <<GccErrorMessage, m>>)

GccError(m) == Raised("ValueError", <<GccErrorMessage>>)

WeightingCaseSensitive(m) ==
    IF m = Phat THEN "phat"
    ELSE IF m = Scot THEN "scot"
    ELSE "unrecognized"

\* the branch of lines 39-50 that a method selector takes
Weighting(m) ==
    IF Lower(m) = Phat THEN "phat"
    ELSE IF Lower(m) = Scot THEN "scot"
    ELSE "unrecognized"

\* n = len(sig1) + len(sig2) - 1
FftLen(s1, s2) == Len(s1) + Len(s2) - 1

(* The transforms of lines 34-53 are computed in fixed point: a real number  *)
(* x is the integer nearest to x * One, a complex number a pair of them.    *)

\* 1.0 in fixed point
One == 1000

\* two fixed-point results closer than this are not told apart
Tolerance == 10

\* TwiddleCos[n][k + 1] = cos(2 pi k / n), for the transform lengths 1..9
TwiddleCos ==
    << <<1000>>,
       <<1000, 0 - 1000>>,
       <<1000, 0 - 500, 0 - 500>>,
       <<1000, 0, 0 - 1000, 0>>,
       <<1000, 309, 0 - 809, 0 - 809, 309>>,
       <<1000, 500, 0 - 500, 0 - 1000, 0 - 500, 500>>,
       <<1000, 623, 0 - 223, 0 - 901, 0 - 901, 0 - 223, 623>>,
       <<1000, 707, 0, 0 - 707, 0 - 1000, 0 - 707, 0, 707>>,
       <<1000, 766, 174, 0 - 500, 0 - 940, 0 - 940, 0 - 500, 174, 766>> >>

\* TwiddleSin[n][k + 1] = sin(2 pi k / n)
TwiddleSin ==
    << <<0>>,
       <<0, 0>>,
       <<0, 866, 0 - 866>>,
       <<0, 1000, 0, 0 - 1000>>,
       <<0, 951, 588, 0 - 588, 0 - 951>>,
       <<0, 866, 866, 0, 0 - 866, 0 - 866>>,
       <<0, 782, 975, 434, 0 - 434, 0 - 975, 0 - 782>>,
       <<0, 707, 1000, 707, 0, 0 - 707, 0 - 1000, 0 - 707>>,
       <<0, 643, 985, 866, 342, 0 - 342, 0 - 866, 0 - 985, 0 - 643>> >>

Complex(re, im) == [re |-> re, im |-> im]

\* the array of the values f[1], ..., f[n], each computed once
RECURSIVE Array(_, _)
Array(f, n) == IF n = 0 THEN <<>> ELSE Append(Array(f, n - 1), f[n])

\* scipy.fft.fft(s, n=n): s is padded with zeros to n samples, and bin f
\* (0-based) is the sum of s[j] e^(-2 pi i f j / n)
Fft(s, n) ==
    Array([f \in 1..n |->
        Complex(SumTo([j \in 1..Len(s) |->
                          s[j] * TwiddleCos[n][(((f - 1) * (j - 1)) % n) + 1]], Len(s)),
                0 - SumTo([j \in 1..Len(s) |->
                          s[j] * TwiddleSin[n][(((f - 1) * (j - 1)) % n) + 1]], Len(s)))], n)

\* a * np.conj(b)
MulConj(a, b) ==
    Complex((a.re * b.re + a.im * b.im) \div One, (a.im * b.re - a.re * b.im) \div One)

RECURSIVE SqrtBetween(_, _, _)
SqrtBetween(x, lo, hi) ==
    IF lo = hi THEN lo
    ELSE LET mid == (lo + hi + 1) \div 2
         IN  IF mid * mid <= x THEN SqrtBetween(x, mid, hi) ELSE SqrtBetween(x, lo, mid - 1)

\* np.sqrt of a non-negative integer, rounded down
Sqrt(x) == SqrtBetween(x, 0, 46340)

\* np.abs(z)
ComplexAbs(z) == Sqrt(z.re * z.re + z.im * z.im)

\* np.abs(z)**2
Power(z) == (z.re * z.re + z.im * z.im) \div One

\* z / (den + 1e-10) for den >= 0: the 1e-10 is below the resolution, and
\* only keeps a zero den from dividing, where z is zero as well
DivideEps(z, den) ==
    IF den = 0 THEN Complex(0, 0)
    ELSE Complex((z.re * One) \div den, (z.im * One) \div den)

\* R = SIG1 * conj(SIG2), line 37
CrossSpectrum(SIG1, SIG2) == [f \in 1..Len(SIG1) |-> MulConj(SIG1[f], SIG2[f])]

\* lines 39-48: R / (|R| + 1e-10) for phat, R / (sqrt(P1 * P2) + 1e-10) with
\* P1 = |SIG1|^2 and P2 = |SIG2|^2 for scot
Weighted(SIG1, SIG2, m) ==
    LET R == CrossSpectrum(SIG1, SIG2)
    IN  Array([f \in 1..Len(R) |->
            IF Weighting(m) = "phat"
            THEN DivideEps(R[f], ComplexAbs(R[f]))
            ELSE DivideEps(R[f], Sqrt(Power(SIG1[f]) * Power(SIG2[f])))], Len(R))

\* ifft(R).real: entry m (0-based) is the real part of the sum of
\* R[f] e^(2 pi i f m / n), divided by n
IfftReal(R) ==
    LET n == Len(R)
    IN  Array([m \in 1..n |->
            (SumTo([f \in 1..n |->
                       R[f].re * TwiddleCos[n][(((f - 1) * (m - 1)) % n) + 1]
                       - R[f].im * TwiddleSin[n][(((f - 1) * (m - 1)) % n) + 1]], n)
                \div n) \div One], n)

SeqMax(v) == CHOOSE x \in {v[i] : i \in 1..Len(v)} : \A j \in 1..Len(v) : v[j] <= x

\* the entries within Tolerance of the largest
NearMax(v) == {j \in 1..Len(v) : v[j] >= SeqMax(v) - Tolerance}

\* ifft(R).real for the weighted cross-spectrum R of lines 34-53, as far as
\* the floating-point computation determines it.  A zero R is transformed to
\* zeros.  Otherwise the fixed-point array is one outcome, and when several
\* entries are within Tolerance of its largest, the rounding of the
\* floating-point transform decides which of them is the largest: each of
\* them may be.
GccOutcomes(s1, s2, m) ==
    LET n == FftLen(s1, s2)
        R == Weighted(Fft(s1, n), Fft(s2, n), m)
        r == IfftReal(R)
    IN  IF (\A f \in 1..n : R[f] = Complex(0, 0)) \/ Cardinality(NearMax(r)) = 1
        THEN {r}
        ELSE {r} \cup {[r EXCEPT ![j] = SeqMax(r) + 1] : j \in NearMax(r)}

\* np.fft.ifftshift: roll by n - n // 2 places to the right
IfftShift(x) ==
    LET n == Len(x)
        shift == n - n \div 2
    IN  [i \in 1..n |-> x[((i - 1 - shift) % n) + 1]]

\* np.fft.fftshift: roll the array by n // 2 places to the right
FftShift(x) ==
    LET n == Len(x)
        shift == n \div 2
    IN  [i \in 1..n |-> x[((i - 1 - shift) % n) + 1]]

\* r is the value of ifft(R).real, one of GccOutcomes(s1, s2, m).  The
\* lags_samples of lines 58-62 is never read; the lag axis is lags_vector.
estimate_tdoa_gcc(s1, s2, rate, m, r) ==
    IF Weighting(m) = "unrecognized"
    THEN GccError(m)
    ELSE LET n == FftLen(s1, s2)
             cc == FftShift(r)
             lags_vector == [i \in 1..n |-> Frac((i - 1) - n \div 2, rate)]
             tdoa_index == ArgMax(cc)
         IN  Num(lags_vector[tdoa_index])

(***************************************************************************)
(* doa.py: estimate_doa_from_tdoa                                          *)
(***************************************************************************)
C == 343

\* a float whose value is exactly q
Finite(q) == [kind |-> "fin", val |-> q, exact |-> TRUE]

\* a float within the rounding of line 33 of q: the operands 1/3430 and 0.1 are
\* not floats, so 1/3430 * 343 / 0.1 is 0.9999999999999999 and not 1
Near(q) == [kind |-> "fin", val |-> q, exact |-> FALSE]

PosInf == [kind |-> "posinf"]

NegInf == [kind |-> "neginf"]

NaN == [kind |-> "nan"]

\* tdoa * c / d.  Dividing by a zero d raises ZeroDivisionError when both
\* operands are Python floats; when one of them is a numpy scalar (as the
\* TDOA returned by the estimators is) the quotient is inf, -inf or nan.
\* The quotient is the exact one when tdoa is 0, or when tdoa, c and d are
\* integers and so is the quotient; otherwise it is rounded.
Ratio(t, dist, speed, numpy_scalar) ==
    LET prod == Frac(t.num * speed, t.den)
    IN  IF dist.num # 0
        THEN LET q == Frac(prod.num * dist.den, prod.den * dist.num)
             IN  IF q.num = 0 \/ (t.den = 1 /\ dist.den = 1 /\ q.den = 1)
                 THEN Finite(q)
                 ELSE Near(q)
        ELSE IF ~numpy_scalar THEN Raised("ZeroDivisionError", <<"float division by zero">>)
        ELSE IF prod.num > 0 THEN PosInf
        ELSE IF prod.num < 0 THEN NegInf
        ELSE NaN

\* no clamping
NoClip(v, lo, hi) == v

\* the bounds taken in the other order: minimum(maximum(v, hi), lo) is lo
ClipSwapped(v, lo, hi) == IF v.kind = "nan" THEN NaN ELSE Finite(lo)

\* np.clip(v, lo, hi) = minimum(maximum(v, lo), hi); nan stays nan.  A value
\* beyond a bound becomes the bound itself, an exact float (a fraction of the
\* model differs from the bound by far more than the rounding, and rounding
\* is monotone); a rounded value at a bound stays at it or just inside.
Clip(v, lo, hi) ==
    IF v.kind = "nan" THEN NaN
    ELSE IF v.kind = "posinf" THEN Finite(hi)
    ELSE IF v.kind = "neginf" THEN Finite(lo)
    ELSE IF FracLess(v.val, lo) THEN Finite(lo)
    ELSE IF FracLess(hi, v.val) THEN Finite(hi)
    ELSE v

\* the cosines are given to 5 decimals
CosScale == 100000

\* <<degrees, lo, hi>> on a grid of 15 degrees, with
\* lo <= cos(degrees) * CosScale <= hi, and lo = hi where the cosine is exact
CosTable ==
    << <<0, 100000, 100000>>, <<15, 96592, 96593>>, <<30, 86602, 86603>>,
       <<45, 70710, 70711>>, <<60, 50000, 50000>>, <<75, 25881, 25882>>,
       <<90, 0, 0>>, <<105, 0 - 25882, 0 - 25881>>,
       <<120, 0 - 50000, 0 - 50000>>, <<135, 0 - 70711, 0 - 70710>>,
       <<150, 0 - 86603, 0 - 86602>>, <<165, 0 - 96593, 0 - 96592>>,
       <<180, 0 - 100000, 0 - 100000>> >>

\* an angle of lo <= angle <= hi degrees; the angle is known when lo = hi
Degrees(lo, hi) == [kind |-> "deg", lo |-> lo, hi |-> hi]

SetMax(S) == CHOOSE x \in S : \A y \in S : y <= x

SetMin(S) == CHOOSE x \in S : \A y \in S : x <= y

\* the grid angles whose cosine is certainly above q: the angle is above them
AnglesBelow(q) ==
    {CosTable[h][1] : h \in {g \in 1..Len(CosTable) : CosTable[g][2] * q.den > q.num * CosScale}}

\* the grid angles whose cosine is certainly below q: the angle is below them
AnglesAbove(q) ==
    {CosTable[h][1] : h \in {g \in 1..Len(CosTable) : CosTable[g][3] * q.den < q.num * CosScale}}

\* np.degrees(np.arcsin(v)), to the same resolution
ArcsinDegrees(v) ==
    IF v.kind # "fin" THEN NaN
    ELSE LET q == v.val IN
         IF q.num > q.den \/ q.num < 0 - q.den THEN NaN
         ELSE IF q.num = 0 THEN Degrees(0, 0)
         ELSE IF q.num = q.den THEN Degrees(IF v.exact THEN 90 ELSE 75, 90)
         ELSE IF q.num = 0 - q.den THEN Degrees(0 - 90, IF v.exact THEN 0 - 90 ELSE 0 - 75)
         ELSE Degrees(90 - SetMin(AnglesAbove(q)), 90 - SetMax(AnglesBelow(q)))

\* np.degrees(np.arccos(v)).  The angle is known where arccos and degrees are
\* exact: 0, 90 and 180 degrees at the floats 1.0, 0.0 and -1.0.  Elsewhere it
\* is enclosed between grid angles: a value rounded to 1 or just below it has
\* an angle of 0 or just above it; a value between two grid cosines lies
\* between their angles; a value that the table cannot tell from a grid
\* cosine lies between the neighbours of that grid angle.  A v outside [-1, 1]
\* is outside the domain of arccos: nan.
ArccosDegrees(v) ==
    IF v.kind # "fin" THEN NaN
    ELSE LET q == v.val IN
         IF q.num > q.den \/ q.num < 0 - q.den THEN NaN
         ELSE IF q.num = 0 THEN Degrees(90, 90)
         ELSE IF q.num = q.den THEN Degrees(0, IF v.exact THEN 0 ELSE 15)
         ELSE IF q.num = 0 - q.den THEN Degrees(IF v.exact THEN 180 ELSE 165, 180)
         ELSE Degrees(SetMax(AnglesBelow(q)), SetMin(AnglesAbove(q)))

estimate_doa_from_tdoa(t, dist, speed, numpy_scalar) ==
    LET val == Ratio(t, dist, speed, numpy_scalar)
    IN  IF val.kind = "error" THEN val
        ELSE ArccosDegrees(Clip(val, Frac(0 - 1, 1), Frac(1, 1)))

\* arguments of estimate_doa_from_tdoa
DoaRates == {1, 343, 686, 3430}

Tdoas == {Frac(n, f) : n \in (0 - MaxTdoaNum)..MaxTdoaNum, f \in DoaRates}

Distances == {Frac(0 - 1, 1), Frac(0, 1), Frac(1, 10), Frac(1, 1), Frac(2, 1)}

Speeds == {C, 0, 0 - C, 1}

(***************************************************************************)
(* The caller: one call at a time, each on arguments of its choice.        *)
(***************************************************************************)
FrameInit ==
    /\ op = "idle"
    /\ sig1 = <<>>
    /\ sig2 = <<>>
    /\ fs = 1
    /\ method = <<>>
    /\ ifft_real = <<>>
    /\ tdoa = Frac(0, 1)
    /\ d = Frac(1, 10)
    /\ c = C
    /\ np_operand = FALSE
    /\ ret = NoCall

\* process_configuration is not running
MainOff ==
    /\ files = <<>>
    /\ mic_distance = Frac(1, 10)
    /\ pc = "off"
    /\ idx = 0
    /\ rirs = <<>>
    /\ rir_rates = <<>>
    /\ fs_rir = 0 - 1
    /\ pair = 0
    /\ calls = <<>>

Init == FrameInit /\ MainOff

CC(sigs, rates) ==
    /\ op = "idle"
    /\ pc = "off"
    /\ \E s1 \in sigs, s2 \in sigs, rate \in rates :
        /\ op' = "estimate_tdoa_cc"
        /\ sig1' = s1
        /\ sig2' = s2
        /\ fs' = rate
        /\ ret' = estimate_tdoa_cc(s1, s2, rate)
    /\ UNCHANGED <<method, ifft_real, tdoa, d, c, np_operand>>
    /\ UNCHANGED mainVars

GCC(sigs, rates, methods) ==
    /\ op = "idle"
    /\ pc = "off"
    /\ \E s1 \in sigs, s2 \in sigs, rate \in rates, m \in methods :
        \E r \in IF Weighting(m) = "unrecognized" THEN {<<>>} ELSE GccOutcomes(s1, s2, m) :
            /\ op' = "estimate_tdoa_gcc"
            /\ sig1' = s1
            /\ sig2' = s2
            /\ fs' = rate
            /\ method' = m
            /\ ifft_real' = r
            /\ ret' = estimate_tdoa_gcc(s1, s2, rate, m, r)
    /\ UNCHANGED <<tdoa, d, c, np_operand>>
    /\ UNCHANGED mainVars

DOA(tdoas, distances, speeds) ==
    /\ op = "idle"
    /\ pc = "off"
    /\ \E t \in tdoas, dist \in distances, speed \in speeds, numpy_scalar \in BOOLEAN :
        /\ op' = "estimate_doa_from_tdoa"
        /\ tdoa' = t
        /\ d' = dist
        /\ c' = speed
        /\ np_operand' = numpy_scalar
        /\ ret' = estimate_doa_from_tdoa(t, dist, speed, numpy_scalar)
    /\ UNCHANGED <<sig1, sig2, fs, method, ifft_real>>
    /\ UNCHANGED mainVars

CallCC == CC(Signals, SampleRates)

CallGCC == GCC(GccSignals, SampleRates, Methods)

CallDOA == DOA(Tdoas, Distances, Speeds)

\* the call has returned or raised; the caller drops its frame
Return ==
    /\ op # "idle"
    /\ op' = "idle"
    /\ sig1' = <<>>
    /\ sig2' = <<>>
    /\ fs' = 1
    /\ method' = <<>>
    /\ ifft_real' = <<>>
    /\ tdoa' = Frac(0, 1)
    /\ d' = Frac(1, 10)
    /\ c' = C
    /\ np_operand' = FALSE
    /\ ret' = NoCall
    /\ UNCHANGED mainVars

Next == CallCC \/ CallGCC \/ CallDOA \/ Return

Spec == Init /\ [][Next]_vars

(***************************************************************************)
(* main.py: load_rirs and process_configuration                            *)
(***************************************************************************)
MaxMics == 3       \* largest num_mics_in_config

\* What load_rirs finds under the name of one microphone: no file, a file
\* that sf.read cannot read, or a file with its sample rate and its samples
\* (one channel).
FileRates == {1, 2}

FileSignals == {<<1>>, <<0, 1>>}

Files ==
    {[state |-> "missing", fs |-> 0, data |-> <<>>],
     [state |-> "unreadable", fs |-> 0, data |-> <<>>]}
    \cup {[state |-> "ok", fs |-> r, data |-> x] : r \in FileRates, x \in FileSignals}

MicDistances == {Frac(1, 10), Frac(1, 1)}

\* process_configuration has been called and load_rirs starts its loop
MainStart ==
    /\ \E n \in 0..MaxMics : files \in [1..n -> Files]
    /\ mic_distance \in MicDistances
    /\ pc = "load"
    /\ idx = 0
    /\ rirs = <<>>
    /\ rir_rates = <<>>
    /\ fs_rir = 0 - 1
    /\ pair = 0
    /\ calls = <<>>

InitMain == FrameInit /\ MainStart

\* One round of the loop of load_rirs (lines 28-44).  The signal is appended
\* before its rate is compared with fs_rir, and a different rate only prints
\* a warning.  rir_rates keeps, for each entry of rirs, the rate it was read
\* at; the code does not store it.
LoadFile ==
    /\ pc = "load"
    /\ idx < Len(files)
    /\ LET f == files[idx + 1] IN
        IF f.state = "ok"
        THEN /\ rirs' = Append(rirs, f.data)
             /\ rir_rates' = Append(rir_rates, f.fs)
             /\ fs_rir' = IF fs_rir = 0 - 1 THEN f.fs ELSE fs_rir
        ELSE UNCHANGED <<rirs, rir_rates, fs_rir>>
    /\ idx' = idx + 1
    /\ UNCHANGED <<files, mic_distance, pc, pair, calls>>
    /\ UNCHANGED frameVars

\* load_rirs returns (lines 46-50) and process_configuration decides whether
\* to go on (lines 63-75)
EndLoad ==
    /\ pc = "load"
    /\ idx = Len(files)
    /\ LET loaded == IF rirs = <<>> THEN <<<<>>, 0 - 1>> ELSE <<rirs, fs_rir>>
       IN  pc' = IF loaded[1] = <<>> \/ loaded[2] = 0 - 1 THEN "done"
                 ELSE IF Len(loaded[1]) < 2 THEN "done"
                 ELSE "pairs"
    /\ pair' = 0
    /\ UNCHANGED <<files, mic_distance, idx, rirs, rir_rates, fs_rir, calls>>
    /\ UNCHANGED frameVars

\* a pair made of one signal taken twice
SecondOfPairSame(i) == i

\* sig2 = rirs[i+1]
SecondOfPair(i) == i + 1

\* range(actual_num_mics_loaded - 1)
PairCount(m) == m - 1

EstimatorCall(fn, a, b, rate, m, result) ==
    [fn |-> fn, a |-> a, b |-> b, fs |-> rate, method |-> m, ret |-> result]

DoaCall(t, dist, result) ==
    [fn |-> "estimate_doa_from_tdoa", tdoa |-> t, d |-> dist, ret |-> result]

\* One round of the loop over the pairs (lines 79-105): three estimates of
\* the TDOA, then the three angles.  a and b are the 0-based places of the
\* two signals in rirs.  The TDOAs are numpy scalars and c is left to its
\* default.
ProcessPair ==
    /\ pc = "pairs"
    /\ pair < PairCount(Len(rirs))
    /\ LET a == pair
           b == SecondOfPair(pair)
           s1 == rirs[a + 1]
           s2 == rirs[b + 1]
       IN  \E r_phat \in GccOutcomes(s1, s2, Phat), r_scot \in GccOutcomes(s1, s2, Scot) :
            LET tdoa_cc_val == estimate_tdoa_cc(s1, s2, fs_rir)
                tdoa_phat_val == estimate_tdoa_gcc(s1, s2, fs_rir, Phat, r_phat)
                tdoa_scot_val == estimate_tdoa_gcc(s1, s2, fs_rir, Scot, r_scot)
                doa_cc_val == estimate_doa_from_tdoa(tdoa_cc_val.val, mic_distance, C, TRUE)
                doa_phat_val == estimate_doa_from_tdoa(tdoa_phat_val.val, mic_distance, C, TRUE)
                doa_scot_val == estimate_doa_from_tdoa(tdoa_scot_val.val, mic_distance, C, TRUE)
            IN  calls' = calls \o
                    << EstimatorCall("estimate_tdoa_cc", a, b, fs_rir, <<>>, tdoa_cc_val),
                       EstimatorCall("estimate_tdoa_gcc", a, b, fs_rir, Phat, tdoa_phat_val),
                       EstimatorCall("estimate_tdoa_gcc", a, b, fs_rir, Scot, tdoa_scot_val),
                       DoaCall(tdoa_cc_val.val, mic_distance, doa_cc_val),
                       DoaCall(tdoa_phat_val.val, mic_distance, doa_phat_val),
                       DoaCall(tdoa_scot_val.val, mic_distance, doa_scot_val) >>
    /\ pair' = pair + 1
    /\ UNCHANGED <<files, mic_distance, pc, idx, rirs, rir_rates, fs_rir>>
    /\ UNCHANGED frameVars

\* the loop over the pairs is over and process_configuration returns
EndPairs ==
    /\ pc = "pairs"
    /\ pair >= PairCount(Len(rirs))
    /\ pc' = "done"
    /\ UNCHANGED <<files, mic_distance, idx, rirs, rir_rates, fs_rir, pair, calls>>
    /\ UNCHANGED frameVars

NextMain == LoadFile \/ EndLoad \/ ProcessPair \/ EndPairs

SpecMain == InitMain /\ [][NextMain]_vars

(***************************************************************************)
(* Properties.                                                             *)
(***************************************************************************)
\* x delayed by k samples: k zero samples, then x
Delay(x, k) == Zeros(k) \o x

CalledCC == op = "estimate_tdoa_cc"

CalledGCC == op = "estimate_tdoa_gcc"

CalledDOA == op = "estimate_doa_from_tdoa"

Seconds(lag, rate) == Num(Frac(lag, rate))

\* C1 as stated: for a non-zero signal x and a shift k, estimate_tdoa_cc(x, x
\* delayed by k, fs) returns k / fs.
C1_DelayedCopyGivesPlusK ==
    CalledCC =>
        \A k \in 0..MaxLen :
            (NonZero(sig1) /\ sig2 = Delay(sig1, k)) => ret = Seconds(k, fs)

\* C1 amended: for a non-zero signal x and a shift k >= 0, estimate_tdoa_cc(x,
\* x preceded by k zero samples, fs) returns -k / fs: the delay of the second
\* signal comes back with a negative sign.
C1_DelayedCopyGivesMinusK ==
    CalledCC =>
        \A k \in 0..MaxLen :
            (NonZero(sig1) /\ sig2 = Delay(sig1, k)) => ret = Seconds(0 - k, fs)

C1_Witness ==
    /\ CalledCC
    /\ NonZero(sig1)
    /\ Len(sig1) >= 2
    /\ sig2 = Delay(sig1, 1)
    /\ fs = 2
    /\ ret = Seconds(0 - 1, 2)

\* C2 as stated: for every non-empty signal s, estimate_tdoa_cc(s, s, fs)
\* returns 0 seconds.
C2_IdenticalGivesZero ==
    (CalledCC /\ sig1 = sig2) => ret = Seconds(0, fs)

\* C2 amended: for every signal s that has a non-zero sample or is one sample
\* long, estimate_tdoa_cc(s, s, fs) returns 0 seconds.
C2_IdenticalNonZeroGivesZero ==
    (CalledCC /\ sig1 = sig2 /\ (NonZero(sig1) \/ Len(sig1) = 1)) => ret = Seconds(0, fs)

C2_Witness ==
    /\ CalledCC
    /\ sig1 = sig2
    /\ Len(sig1) = MaxLen
    /\ NonZero(sig1)
    /\ \E i \in 1..Len(sig1) : sig1[i] < 0
    /\ ret = Seconds(0, fs)

IsAngle(r) == r.kind = "deg" /\ 0 <= r.lo /\ r.lo <= r.hi /\ r.hi <= 180

\* C3 as stated: for all finite tdoa, d and c, estimate_doa_from_tdoa returns
\* a defined angle in [0, 180] degrees, never an error or NaN.
C3_AlwaysAnAngle == CalledDOA => IsAngle(ret)

\* C3 amended: for all finite tdoa and c and every finite d other than 0,
\* estimate_doa_from_tdoa returns a defined angle in [0, 180] degrees.
C3_AngleWhenDistanceNotZero == (CalledDOA /\ d.num # 0) => IsAngle(ret)

\* |tdoa * c| > |d|: the ratio is outside [-1, 1]
RatioOutOfRange == Abs(tdoa.num * c) * d.den > tdoa.den * Abs(d.num)

C3_Witness ==
    /\ CalledDOA
    /\ d.num < 0
    /\ RatioOutOfRange
    /\ IsAngle(ret)

\* C4: with the sound speed 343 and a positive d, the angle is exactly 0
\* degrees when tdoa * 343 / d > 1 and exactly 180 degrees when it is < -1.
C4_ClampedToBoundary ==
    (CalledDOA /\ c = 343 /\ d.num > 0) =>
        /\ (tdoa.num * 343 * d.den > tdoa.den * d.num) => ret = Degrees(0, 0)
        /\ (tdoa.num * 343 * d.den < 0 - (tdoa.den * d.num)) => ret = Degrees(180, 180)

C4_Witness ==
    /\ CalledDOA
    /\ c = 343
    /\ d = Frac(1, 10)
    /\ tdoa = Frac(0 - 1, 343)
    /\ ret = Degrees(180, 180)

\* C5: for a positive d and any sound speed, a TDOA of 0 gives 90 degrees.
C5_ZeroTdoaIsBroadside ==
    (CalledDOA /\ tdoa.num = 0 /\ d.num > 0) => ret = Degrees(90, 90)

C5_Witness ==
    /\ CalledDOA
    /\ tdoa.num = 0
    /\ d = Frac(2, 1)
    /\ c = 0 - 343
    /\ ret = Degrees(90, 90)

IsValueError(r) == r.kind = "error" /\ r.type = "ValueError"

\* C6 as stated: a method other than phat and scot ends in a ValueError and
\* never in a numeric TDOA; phat and scot never raise it.
C6_OnlyPhatAndScotAccepted ==
    CalledGCC =>
        IF method \in {Phat, Scot} THEN ret.kind = "num" ELSE IsValueError(ret)

SpelledAnyCase(m, lower, upper) ==
    /\ Len(m) = Len(lower)
    /\ \A i \in 1..Len(m) : m[i] = lower[i] \/ m[i] = upper[i]

Supported(m) ==
    \/ SpelledAnyCase(m, <<"p", "h", "a", "t">>, <<"P", "H", "A", "T">>)
    \/ SpelledAnyCase(m, <<"s", "c", "o", "t">>, <<"S", "C", "O", "T">>)

\* C6 amended: a method that is neither phat nor scot in any mix of upper and
\* lower case ends in a ValueError and never in a numeric TDOA; phat and scot,
\* in any case, never raise it.
C6_PhatAndScotAcceptedInAnyCase ==
    CalledGCC => IF Supported(method) THEN ret.kind = "num" ELSE IsValueError(ret)

C6_Witness ==
    /\ CalledGCC
    /\ method = <<"S", "c", "o", "t">>
    /\ Len(sig1) # Len(sig2)
    /\ ret.kind = "num"

OtherUnrecognized == {m \in Methods : m # method /\ ~Supported(m)}

\* C7 as stated: the error names the method that was passed, so a different
\* unrecognized method yields a different error.
C7_ErrorNamesTheMethod ==
    (CalledGCC /\ ret.kind = "error") =>
        \A m \in OtherUnrecognized : estimate_tdoa_gcc(sig1, sig2, fs, m, <<>>) # ret

\* C7 amended: the error for an unrecognized method is a ValueError with one
\* fixed message, which names the supported methods and not the one passed:
\* every unrecognized method yields the same error.
C7_ErrorIsTheSameForEveryMethod ==
    (CalledGCC /\ ret.kind = "error") =>
        /\ IsValueError(ret)
        /\ Len(ret.args) = 1
        /\ \A m \in OtherUnrecognized : estimate_tdoa_gcc(sig1, sig2, fs, m, <<>>) = ret

C7_Witness ==
    /\ CalledGCC
    /\ method = <<"i", "n", "v", "a", "l", "i", "d">>
    /\ IsValueError(ret)
    /\ OtherUnrecognized # {}

\* one signal is the other preceded by at least one zero sample
Sig1Delayed == \E k \in 1..MaxLen : sig1 = Delay(sig2, k)

Sig2Delayed == \E k \in 1..MaxLen : sig2 = Delay(sig1, k)

\* C8: on a non-zero signal and a delayed copy of it, a positive TDOA means
\* that signal1 is the delayed one (signal2 leads), a negative TDOA that
\* signal2 is the delayed one (signal1 leads).
C8_SignConvention ==
    (CalledCC /\ NonZero(sig1) /\ (Sig1Delayed \/ Sig2Delayed \/ sig1 = sig2)) =>
        /\ ret.val.num > 0 => Sig1Delayed
        /\ ret.val.num < 0 => Sig2Delayed

C8_Witness ==
    /\ CalledCC
    /\ NonZero(sig1)
    /\ Sig1Delayed
    /\ ret.val.num > 0

Maximisers(v) == {i \in 1..Len(v) : \A j \in 1..Len(v) : v[j] <= v[i]}

\* the lags, in samples, of the entries that the estimator of the call chose among
CandidateLags ==
    IF CalledCC
    THEN {i - Len(sig2) : i \in Maximisers(Correlate(sig1, sig2))}
    ELSE {(i - 1) - (FftLen(sig1, sig2) \div 2) : i \in Maximisers(FftShift(ifft_real))}

\* C9: when the correlation maximum is attained at several indices, both
\* estimators return the lag of the lowest one, the earliest lag of all
\* maximisers.
C9_FirstMaximumWins ==
    ((CalledCC \/ CalledGCC) /\ ret.kind = "num") =>
        ret = Seconds(SetMin(CandidateLags), fs)

C9_Witness ==
    /\ CalledCC
    /\ NonZero(sig1)
    /\ NonZero(sig2)
    /\ Cardinality(CandidateLags) >= 2
    /\ ret = Seconds(SetMin(CandidateLags), fs)
    /\ ret # Seconds(SetMax(CandidateLags), fs)

BinIndices(n) == [i \in 1..n |-> i - 1]

\* C10: with n = len(signal1) + len(signal2) - 1, fftshift puts bin 0 of the
\* circular correlation at index n \div 2 for even and odd n, the entry at
\* index i carries the lag i - n \div 2, and the TDOA times fs is an integer
\* of -(n \div 2) .. n - 1 - (n \div 2).
C10_LagAxisOfGcc ==
    (CalledGCC /\ ret.kind = "num") =>
        LET n == Len(sig1) + Len(sig2) - 1
            half == n \div 2
            shifted == FftShift(BinIndices(n))
        IN  /\ shifted[half + 1] = 0
            /\ \E lag \in (0 - half)..(n - 1 - half) :
                /\ ret = Seconds(lag, fs)
                /\ shifted[lag + half + 1] = lag % n
                /\ (lag % n) + 1 \in Maximisers(ifft_real)

C10_Witness ==
    /\ CalledGCC
    /\ Len(sig1) + Len(sig2) - 1 = 3
    /\ fs = 1
    /\ ret = Seconds(1, 1)
    /\ \E i \in 1..3 : ifft_real[i] < ifft_real[2]

\* the TDOA is within one sample period of lag / fs
WithinOneSample(r, lag) == \E l \in (lag - 1)..(lag + 1) : r = Seconds(l, fs)

\* C11: for a non-zero signal x and its copy delayed by k samples (signal1 =
\* x, signal2 = x preceded by k zero samples, the order of C1),
\* estimate_tdoa_gcc with phat and with scot returns a TDOA within one sample
\* period of k / fs.
C11_GccDelayedCopyNearPlusK ==
    (CalledGCC /\ ret.kind = "num") =>
        \A k \in 0..(2 * MaxGccLen) :
            (NonZero(sig1) /\ sig2 = Delay(sig1, k)) => WithinOneSample(ret, k)

\* the number of zero samples a signal starts with
RECURSIVE LeadingZeros(_)
LeadingZeros(s) ==
    IF s = <<>> \/ Head(s) # 0 THEN 0 ELSE 1 + LeadingZeros(Tail(s))

RECURSIVE DropTrailingZeros(_)
DropTrailingZeros(s) ==
    IF s = <<>> \/ s[Len(s)] # 0 THEN s ELSE DropTrailingZeros(SubSeq(s, 1, Len(s) - 1))

\* a signal without the zero samples before its first and after its last
\* non-zero sample
Core(s) == DropTrailingZeros(SubSeq(s, LeadingZeros(s) + 1, Len(s)))

\* C14: for signals of any lengths the GCC path labels each bin of the
\* circular correlation with the lag that estimate_tdoa_cc gives the
\* corresponding entry of the linear correlation (the entry of lag l is bin
\* l mod n), so a pure shift between the two signals comes back from the GCC
\* path as the same lag as from the cross-correlation path.
C14_GccLagsMatchCc ==
    (CalledGCC /\ ret.kind = "num") =>
        LET n == FftLen(sig1, sig2)
            half == n \div 2
            bins == FftShift(BinIndices(n))
            lags == CorrelationLags(Len(sig1), Len(sig2))
        IN  /\ \A i \in 1..n : \A j \in 1..n :
                (bins[j] = lags[i] % n) => ((j - 1) - half = lags[i])
            /\ (NonZero(sig1) /\ Core(sig1) = Core(sig2))
                => ret = estimate_tdoa_cc(sig1, sig2, fs)

IsEstimatorCall(call) == call.fn \in {"estimate_tdoa_cc", "estimate_tdoa_gcc"}

\* C13: the two signals of every pair handed to an estimator were read at
\* one sample rate, and that rate is the fs handed over with them.
C13_PairsShareTheirRate ==
    \A k \in 1..Len(calls) :
        IsEstimatorCall(calls[k]) =>
            /\ rir_rates[calls[k].a + 1] = rir_rates[calls[k].b + 1]
            /\ rir_rates[calls[k].a + 1] = calls[k].fs

\* the files that load_rirs can read
Readable == {k \in 1..Len(files) : files[k].state = "ok"}

\* the six calls made for the pair (k, k + 1), in the order they are made
CallsOfPair(k) ==
    LET at == 6 * k
        t_cc == calls[at + 1]
        t_phat == calls[at + 2]
        t_scot == calls[at + 3]
        on_pair(call) == call.a = k /\ call.b = k + 1 /\ call.fs = fs_rir
        angle_of(call, t) ==
            /\ call.fn = "estimate_doa_from_tdoa"
            /\ call.tdoa = t.ret.val
            /\ call.d = mic_distance
    IN  /\ t_cc.fn = "estimate_tdoa_cc" /\ on_pair(t_cc)
        /\ t_phat.fn = "estimate_tdoa_gcc" /\ t_phat.method = <<"p", "h", "a", "t">>
        /\ on_pair(t_phat)
        /\ t_scot.fn = "estimate_tdoa_gcc" /\ t_scot.method = <<"s", "c", "o", "t">>
        /\ on_pair(t_scot)
        /\ angle_of(calls[at + 4], t_cc)
        /\ angle_of(calls[at + 5], t_phat)
        /\ angle_of(calls[at + 6], t_scot)

\* C15: process_configuration calls no estimator when fewer than two signals
\* were loaded or fs is -1; with m >= 2 signals loaded it handles the pairs
\* (0, 1), ..., (m - 2, m - 1), each once and in this order, with CC, PHAT
\* and SCOT and then the three angles for the given mic_distance.
C15_ConsecutivePairsInOrder ==
    /\ pc = "load" => calls = <<>>
    /\ pc = "pairs" => (Len(rirs) >= 2 /\ fs_rir # 0 - 1 /\ Len(calls) = 6 * pair)
    /\ pc = "done" =>
        /\ Len(rirs) = Cardinality(Readable)
        /\ Len(calls) = IF Len(rirs) < 2 \/ fs_rir = 0 - 1 THEN 0 ELSE 6 * (Len(rirs) - 1)
    /\ \A k \in 0..((Len(calls) \div 6) - 1) : CallsOfPair(k)

C15_Witness ==
    /\ pc = "done"
    /\ Len(files) = 3
    /\ Cardinality(Readable) = 3
    /\ Len(calls) = 12
    /\ calls[7].a = 1
    /\ calls[7].b = 2
    /\ calls[1].ret # calls[7].ret

====
